---- MODULE Spec2Model ----
(***************************************************************************)
(* The NovoGrad optimizer of src/novograd.js as a state machine.           *)
(*                                                                         *)
(* Numbers are fixed-point: the real x is the integer x * SCALE, every     *)
(* product and quotient is truncated toward zero, and the square root is   *)
(* the integer square root.  NaN is a value of its own that every          *)
(* arithmetic operation propagates, as IEEE arithmetic does.  A tensor is  *)
(* a non-empty sequence of numbers (rank 1); a scalar tensor (v, gradEMA,  *)
(* g2) is a number.                                                        *)
(***************************************************************************)
EXTENDS Integers, Sequences, FiniteSets, TLC

\* Fixed-point scale of the number model.
SCALE == 1000
\* Number of step() calls a behaviour makes.
MaxCalls == 2
\* Largest stepCount at which the step-size formula is evaluated.
MaxExp == 6

VARIABLES
    cfg,                  \* this.lr, beta1, beta2, eps, weightDecay, gradAveraging
    params,               \* this.params: the managed list, a sequence of parameter objects
    states,               \* this.states: Map from parameter object to its state
    momentumInitialized,  \* this.momentumInitialized
    data,                 \* param.data of every parameter object
    grad,                 \* param.grad of every parameter object (Unset: undefined)
    calls,                \* step() calls made so far
    okCalls,              \* step() calls that returned normally so far
    outcome,              \* how the step() call that has just ended ended
    writes,               \* assignments to param.data made by that call
    created,              \* states.set(param, ...) executions per parameter object
    zeroOnly              \* every step() call so far saw zero gradients

vars == <<cfg, params, states, momentumInitialized, data, grad,
          calls, okCalls, outcome, writes, created, zeroOnly>>

----------------------------------------------------------------------------
(* Numbers *)

\* The result of `this.weightDecay * param.data`: a JS number times a Tensor
\* object.  The object is converted with ToNumber, which goes through
\* Tensor.toString() ("Tensor\n    [1, 2, 3]") and yields NaN.
NaN == -1000000000

IsNaN(x) == x = NaN

Abs(x) == IF x < 0 THEN -x ELSE x

\* n / d truncated toward zero (d # 0)
Trunc(n, d) ==
    LET q == Abs(n) \div Abs(d)
    IN IF (n < 0) = (d < 0) THEN q ELSE -q

Add(a, b) == IF IsNaN(a) \/ IsNaN(b) THEN NaN ELSE a + b

Sub(a, b) == IF IsNaN(a) \/ IsNaN(b) THEN NaN ELSE a - b

Mul(a, b) == IF IsNaN(a) \/ IsNaN(b) THEN NaN ELSE Trunc(a * b, SCALE)

\* 0/0 is NaN; with eps > 0 and decay rates other than 1 (see Configs) no
\* other division by zero arises
Div(a, b) == IF IsNaN(a) \/ IsNaN(b) \/ b = 0 THEN NaN ELSE Trunc(a * SCALE, b)

RECURSIVE SqrtSearch(_, _, _)
SqrtSearch(n, lo, hi) ==
    IF lo >= hi THEN lo
    ELSE LET mid == (lo + hi + 1) \div 2
         IN IF mid * mid <= n THEN SqrtSearch(n, mid, hi)
                              ELSE SqrtSearch(n, lo, mid - 1)

\* tf.sqrt / Math.sqrt: NaN for a negative argument
Sqrt(a) ==
    IF IsNaN(a) \/ a < 0 THEN NaN
    ELSE SqrtSearch(a * SCALE, 0, IF a * SCALE < 46340 THEN a * SCALE ELSE 46340)

\* Math.pow(b, n) for an integer n >= 0
RECURSIVE Pow(_, _)
Pow(b, n) == IF n = 0 THEN SCALE ELSE Mul(Pow(b, n - 1), b)

----------------------------------------------------------------------------
(* Tensors *)

\* param.grad left undefined by the caller
Unset == << >>

\* gradEMA: null of the freshly created state
Null == << >>

RECURSIVE SumSq(_, _)
SumSq(t, i) == IF i > Len(t) THEN 0 ELSE Add(Mul(t[i], t[i]), SumSq(t, i + 1))

\* tf.norm(t).square(): the Euclidean norm, then squared
NormSq(t) == LET n == Sqrt(SumSq(t, 1)) IN Mul(n, n)

\* tensor op scalar
DivS(t, s) == [i \in 1..Len(t) |-> Div(t[i], s)]

MulS(t, s) == [i \in 1..Len(t) |-> Mul(t[i], s)]

AddS(t, s) == [i \in 1..Len(t) |-> Add(t[i], s)]

\* tensor op tensor broadcasts; shapes that do not broadcast throw
Broadcastable(a, b) == Len(a) = Len(b) \/ Len(a) = 1 \/ Len(b) = 1

At(t, i) == IF Len(t) = 1 THEN t[1] ELSE t[i]

BLen(a, b) == IF Len(a) >= Len(b) THEN Len(a) ELSE Len(b)

TAdd(a, b) == [i \in 1..BLen(a, b) |-> Add(At(a, i), At(b, i))]

TSub(a, b) == [i \in 1..BLen(a, b) |-> Sub(At(a, i), At(b, i))]

----------------------------------------------------------------------------
(* The optimizer *)

\* The parameter objects of the caller (param1, param2 of the usage example)
ParamIds == {1, 2}

\* param.data at construction: two parameters of different shapes
InitialData == << <<SCALE>>, <<3 * SCALE, 4 * SCALE>> >>

\* What the caller's backward pass may leave in param.grad
GradChoices ==
    { Unset, <<0>>, <<(3 * SCALE) \div 10, (4 * SCALE) \div 10>>,
      <<SCALE, 2 * SCALE, 2 * SCALE>> }

\* Lists of distinct parameter objects, and lists that repeat one
DistinctLists == { <<1>>, <<1, 2>>, <<2, 1>> }

RepeatingLists == { <<1, 1>>, <<1, 2, 1>> }

\* The options objects handed to the constructor.  eps is one unit of the
\* number model; the constructor takes any numbers, so decay rates outside
\* (0,1) and a negative weightDecay are among them.
Configs ==
    { [lr |-> SCALE \div 10, beta1 |-> (95 * SCALE) \div 100,
       beta2 |-> (98 * SCALE) \div 100, eps |-> 1, weightDecay |-> 0,
       gradAveraging |-> FALSE],
      [lr |-> SCALE \div 10, beta1 |-> (9 * SCALE) \div 10,
       beta2 |-> SCALE \div 2, eps |-> 1, weightDecay |-> SCALE \div 100,
       gradAveraging |-> TRUE],
      [lr |-> SCALE \div 100, beta1 |-> SCALE \div 2,
       beta2 |-> (9 * SCALE) \div 10, eps |-> 1, weightDecay |-> 0,
       gradAveraging |-> TRUE],
      [lr |-> SCALE \div 10, beta1 |-> (15 * SCALE) \div 10,
       beta2 |-> (98 * SCALE) \div 100, eps |-> 1, weightDecay |-> 0,
       gradAveraging |-> FALSE],
      [lr |-> SCALE \div 10, beta1 |-> (95 * SCALE) \div 100,
       beta2 |-> (98 * SCALE) \div 100, eps |-> 1, weightDecay |-> -(SCALE \div 100),
       gradAveraging |-> FALSE] }

\* The parameter objects the list names
Managed == { params[i] : i \in 1..Len(params) }

\* Map.set
Put(f, k, v) == [x \in DOMAIN f \cup {k} |-> IF x = k THEN v ELSE f[x]]

\* `this.weightDecay * param.data`, a number times a Tensor object
NumberTimesTensor(w, t) == NaN

\* What step() works on: the parameters' fields and the optimizer's map
Memory ==
    [data |-> data, grad |-> grad, states |-> states, created |-> created,
     writes |-> [p \in ParamIds |-> 0], thrown |-> FALSE]

\* lines 21-24: the state of one parameter in the one-time pass; tf.norm
\* throws on an undefined gradient
InitParam(mem, p) ==
    IF mem.grad[p] = Unset THEN [mem EXCEPT !.thrown = TRUE]
    ELSE LET v == NormSq(mem.grad[p])
             m == AddS(DivS(mem.grad[p], Add(Sqrt(v), cfg.eps)),
                       NumberTimesTensor(cfg.weightDecay, mem.data[p]))
         IN [mem EXCEPT
                !.states = Put(@, p, [step |-> 0, v |-> v, m |-> m, gradEMA |-> Null]),
                !.created[p] = @ + 1]

\* lines 20-25: forEach stops at the first exception
RECURSIVE InitPass(_, _)
InitPass(mem, i) ==
    IF i > Len(params) \/ mem.thrown THEN mem
    ELSE InitPass(InitParam(mem, params[i]), i + 1)

\* The moving average with an absent gradEMA taken for zero
NewGradEMAFromZero(gradEMA, g2) ==
    Add(Mul(IF gradEMA = Null THEN 0 ELSE gradEMA[1], cfg.beta2),
        Mul(g2, SCALE - cfg.beta2))

\* line 36: a Tensor object is truthy whatever its value
NewGradEMA(gradEMA, g2) ==
    IF gradEMA = Null THEN g2
    ELSE Add(Mul(gradEMA[1], cfg.beta2), Mul(g2, SCALE - cfg.beta2))

\* lines 38-42
NormalizedGrad(g, ema) ==
    LET n == DivS(g, Add(Sqrt(ema), cfg.eps))
    IN IF cfg.gradAveraging THEN MulS(n, SCALE - cfg.beta1) ELSE n

\* lines 44-45
NewV(v, ng) == Add(Mul(v, cfg.beta2), Mul(NormSq(ng), SCALE - cfg.beta2))

\* line 46, the operand added to m.mul(beta1)
Increment(ng, v, d) ==
    AddS(DivS(ng, Add(Sqrt(v), cfg.eps)), NumberTimesTensor(cfg.weightDecay, d))

\* lines 48-49: 1 - Math.pow(beta, step + 1)
BiasCorrection(beta, step) == SCALE - Pow(beta, step + 1)

\* The step size with the two decay rates taken for each other
StepSizeSwapped(step) ==
    Div(Mul(cfg.lr, Sqrt(BiasCorrection(cfg.beta1, step))),
        BiasCorrection(cfg.beta2, step))

\* lines 48-51
StepSize(step) ==
    Div(Mul(cfg.lr, Sqrt(BiasCorrection(cfg.beta2, step))),
        BiasCorrection(cfg.beta1, step))

\* lines 31-58 for the parameter p with the state object `state`
UpdateWithState(mem, p, state) ==
    IF mem.grad[p] = Unset THEN [mem EXCEPT !.thrown = TRUE]
    ELSE LET g   == mem.grad[p]
             ema == NewGradEMA(state.gradEMA, NormSq(g))
             ng  == NormalizedGrad(g, ema)
             v   == NewV(state.v, ng)
             inc == Increment(ng, v, mem.data[p])
         IN IF ~Broadcastable(state.m, inc) THEN [mem EXCEPT !.thrown = TRUE]
            ELSE LET m == TAdd(MulS(state.m, cfg.beta1), inc)
                 IN IF ~Broadcastable(mem.data[p], m)
                    THEN [mem EXCEPT !.thrown = TRUE]
                    ELSE [mem EXCEPT
                            !.data[p] = TSub(@, MulS(m, StepSize(state.step))),
                            !.writes[p] = @ + 1,
                            !.states[p] = [step |-> state.step + 1, v |-> v,
                                           m |-> m, gradEMA |-> <<ema>>]]

\* The update reading the state object of the first parameter of the list
UpdateParamFirstState(mem, p) == UpdateWithState(mem, p, mem.states[params[1]])

\* The update normalising param.grad in place
UpdateParamInPlace(mem, p) ==
    LET r == UpdateWithState(mem, p, mem.states[p])
    IN IF r.thrown THEN r
       ELSE [r EXCEPT !.grad[p] = DivS(@, Add(Sqrt(NormSq(@)), cfg.eps))]

\* lines 30-58: the state object is the one the map holds for this parameter
UpdateParam(mem, p) == UpdateWithState(mem, p, mem.states[p])

\* forEach over a list of parameters: it stops at the first exception
RECURSIVE UpdateAll(_, _, _)
UpdateAll(mem, order, i) ==
    IF i > Len(order) \/ mem.thrown THEN mem
    ELSE UpdateAll(UpdateParam(mem, order[i]), order, i + 1)

\* lines 29-59
UpdatePass(mem) == UpdateAll(mem, params, 1)

\* lines 19-27: the flag is set once the one-time pass has run to its end
AfterInit(mem) == IF momentumInitialized THEN mem ELSE InitPass(mem, 1)

\* lines 18-60
StepResult == LET m1 == AfterInit(Memory)
              IN IF m1.thrown THEN m1 ELSE UpdatePass(m1)

ZeroLike(t) == [i \in 1..Len(t) |-> 0]

\* The zero tensor of the parameter's shape is in every managed grad
ZeroGrads == \A p \in Managed : grad[p] = ZeroLike(InitialData[p])

----------------------------------------------------------------------------
(* Actions *)

\* new NovoGrad(params, options): lines 4-16 store the options unchecked
Constructed(lists) ==
    /\ cfg \in Configs
    /\ params \in lists
    /\ states = << >>
    /\ momentumInitialized = FALSE
    /\ data = InitialData
    /\ grad = [p \in ParamIds |-> Unset]
    /\ calls = 0
    /\ okCalls = 0
    /\ outcome = "none"
    /\ writes = [p \in ParamIds |-> 0]
    /\ created = [p \in ParamIds |-> 0]
    /\ zeroOnly = TRUE

Init == Constructed(DistinctLists)

InitAnyList == Constructed(DistinctLists \cup RepeatingLists)

\* The caller's backward pass: it assigns the grad of every parameter it
\* handed to the optimizer, then moves on; the loop makes MaxCalls iterations
Backward ==
    \E g \in [ParamIds -> GradChoices] :
        /\ calls < MaxCalls
        /\ \A p \in ParamIds \ Managed : g[p] = grad[p]
        /\ g # grad
        /\ grad' = g
        /\ outcome' = "none"
        /\ writes' = [p \in ParamIds |-> 0]
        /\ UNCHANGED <<cfg, params, states, momentumInitialized, data,
                       calls, okCalls, created, zeroOnly>>

\* optimizer.step()
Step ==
    /\ calls < MaxCalls
    /\ LET r == StepResult
       IN /\ data' = r.data
          /\ grad' = r.grad
          /\ states' = r.states
          /\ created' = r.created
          /\ writes' = r.writes
          /\ momentumInitialized' = (momentumInitialized \/ ~AfterInit(Memory).thrown)
          /\ outcome' = IF r.thrown THEN "error" ELSE "ok"
          /\ okCalls' = IF r.thrown THEN okCalls ELSE okCalls + 1
    /\ calls' = calls + 1
    /\ zeroOnly' = (zeroOnly /\ ZeroGrads)
    /\ UNCHANGED <<cfg, params>>

Next == Backward \/ Step

Spec == Init /\ [][Next]_vars

SpecAnyList == InitAnyList /\ [][Next]_vars

----------------------------------------------------------------------------
(* Properties *)

\* The configurations the specification's ConfigurationError admits
ValidConfig(c) ==
    /\ 0 < c.beta1 /\ c.beta1 < SCALE
    /\ 0 < c.beta2 /\ c.beta2 < SCALE
    /\ c.eps > 0
    /\ c.lr >= 0
    /\ c.weightDecay >= 0

\* The memory the per-parameter updates of the next step() call start from
Ready == AfterInit(Memory)

\* One parameter's update on its own: an update that throws changes nothing
Run(mem, p) == UpdateParam([mem EXCEPT !.thrown = FALSE], p)

View(mem) == <<mem.data, mem.grad, mem.states>>

\* The orders in which the entries of the managed list can be visited
Orders ==
    { o \in [1..Len(params) -> Managed] :
        \A p \in Managed : Cardinality({ i \in 1..Len(params) : o[i] = p })
                           = Cardinality({ i \in 1..Len(params) : params[i] = p }) }

\* C1: a step() call that fails has modified no managed parameter's data.
C1_FailureAtomic == outcome = "error" => \A p \in ParamIds : writes[p] = 0

\* C2: an optimizer with an invalid configuration is never constructed, so
\* it holds no state and no step() call runs under such a configuration.
C2_InvalidConfigRejected ==
    (calls > 0 \/ DOMAIN states # {}) => ValidConfig(cfg)

\* C3: a step() call that returns normally overwrites the data of every
\* parameter of the list exactly once, whatever the list holds, and after n
\* successful calls every managed parameter's stepCount is n.
C3_UpdatedExactlyOnce ==
    /\ outcome = "ok" => \A p \in Managed : writes[p] = 1
    /\ \A p \in Managed :
          /\ okCalls > 0 => p \in DOMAIN states
          /\ p \in DOMAIN states => states[p].step = okCalls

\* C4: after the first step() call on a fresh optimizer every managed
\* parameter has stepCount 1 and a gradientEMA equal to the squared norm of
\* the gradient of that call, a zero gradient included.
C4_FirstStepState ==
    (calls = 1 /\ outcome = "ok") =>
        \A p \in Managed :
            /\ p \in DOMAIN states
            /\ states[p].step = 1
            /\ states[p].gradEMA = <<NormSq(grad[p])>>

C4_Witness ==
    /\ calls = 1 /\ outcome = "ok" /\ Len(params) = 2
    /\ \E p \in Managed : grad[p] = ZeroLike(grad[p])
    /\ \E p \in Managed : NormSq(grad[p]) > 0

\* C5: the state mapping is empty before the first step() call, holds one
\* state for every managed parameter after it, whether calls fail or not,
\* and no parameter's state is created a second time.
C5_OneShotInit ==
    /\ calls = 0 => DOMAIN states = {}
    /\ calls > 0 => (momentumInitialized /\ DOMAIN states = Managed)
    /\ \A p \in ParamIds : created[p] <= 1

\* C6: once the initialization pass has completed, the update of a parameter
\* touches only that parameter's data and state, the updates of two distinct
\* parameters commute, and a pass in which no update throws leaves the same
\* data and states in whatever order it visits the list.
C6_OrderIndependent ==
    LET r == Ready
    IN ~r.thrown =>
        /\ \A p, q \in Managed :
              p # q =>
                LET rp == Run(r, p)
                IN /\ rp.data[q] = r.data[q]
                   /\ rp.states[q] = r.states[q]
                   /\ rp.grad = r.grad
                   /\ View(Run(rp, q)) = View(Run(Run(r, q), p))
        /\ LET done == UpdatePass(r)
           IN ~done.thrown =>
                 \A o \in Orders : View(UpdateAll(r, o, 1)) = View(done)

C6_Witness ==
    /\ momentumInitialized /\ Len(params) = 2
    /\ states[1] # states[2]
    /\ grad[1] # Unset /\ grad[2] # Unset /\ Len(grad[1]) # Len(grad[2])
    /\ ~UpdatePass(Ready).thrown
    /\ UpdatePass(Ready).states[1] # UpdatePass(Ready).states[2]

\* C7: with weightDecay = 0 and a zero gradient in every parameter on every
\* step() call, every parameter's data stays equal to its initial data.
C7_ZeroGradStable ==
    (cfg.weightDecay = 0 /\ zeroOnly) => \A p \in Managed : data[p] = InitialData[p]

\* C8: a step() call leaves every parameter's grad as it found it.
C8_GradUntouched == [][calls' # calls => grad' = grad]_vars

C8_Witness ==
    /\ outcome = "ok"
    /\ \E p \in Managed : writes[p] > 0 /\ NormSq(grad[p]) > 0

\* The first moment the initialization pass of the base recurrence computes
BaseM0(g) == DivS(g, Add(Sqrt(NormSq(g)), cfg.eps))

BaseStep ==
    (calls' = calls + 1 /\ outcome' = "ok"
        /\ cfg.weightDecay = 0 /\ ~cfg.gradAveraging) =>
    \A p \in Managed :
        LET m  == IF momentumInitialized THEN states[p].m ELSE BaseM0(grad[p])
            ng == DivS(grad[p], Add(Sqrt(states'[p].gradEMA[1]), cfg.eps))
            m1 == TAdd(MulS(m, cfg.beta1),
                       DivS(ng, Add(Sqrt(states'[p].v), cfg.eps)))
        IN /\ states'[p].m = m1
           /\ data'[p] = TSub(data[p], MulS(m1, StepSize(states'[p].step - 1)))

\* C9: with weightDecay = 0 and gradientAveraging off, every step() leaves
\* the first moment and the data of the base recurrence without the
\* weight-decay term: m' = beta1*m + normalizedGrad/(sqrt(v')+eps), with
\* m0 = grad/(sqrt(v0)+eps), and data' = data - stepSize*m'.
C9_BaseRecurrence == [][BaseStep]_vars

\* C10 as stated: at stepCount 0 the step size is lr*sqrt(1-beta2), and it
\* increases strictly with stepCount, staying below lr*sqrt(1-beta2)/(1-beta1).
C10_AsStated ==
    (ValidConfig(cfg) /\ cfg.lr > 0) =>
        \A p \in DOMAIN states :
            /\ states[p].step > 0 => StepSize(0) = Mul(cfg.lr, Sqrt(SCALE - cfg.beta2))
            /\ \A k \in 1..(states[p].step - 1) :
                  /\ StepSize(k - 1) < StepSize(k)
                  /\ StepSize(k) <= Div(Mul(cfg.lr, Sqrt(SCALE - cfg.beta2)),
                                        SCALE - cfg.beta1)

\* C10, amended: at stepCount 0 the step size is lr*sqrt(1-beta2)/(1-beta1);
\* both bias corrections increase strictly with stepCount and stay in (0,1],
\* and the step size stays between lr*sqrt(1-beta2) and lr/(1-beta1).
C10_StepSize ==
    (ValidConfig(cfg) /\ cfg.lr > 0) =>
        /\ StepSize(0) = Div(Mul(cfg.lr, Sqrt(SCALE - cfg.beta2)), SCALE - cfg.beta1)
        /\ \A k \in 0..MaxExp :
              /\ 0 < BiasCorrection(cfg.beta1, k)
              /\ BiasCorrection(cfg.beta1, k) < BiasCorrection(cfg.beta1, k + 1)
              /\ BiasCorrection(cfg.beta1, k + 1) <= SCALE
              /\ 0 < BiasCorrection(cfg.beta2, k)
              /\ BiasCorrection(cfg.beta2, k) < BiasCorrection(cfg.beta2, k + 1)
              /\ BiasCorrection(cfg.beta2, k + 1) <= SCALE
              /\ Mul(cfg.lr, Sqrt(SCALE - cfg.beta2)) <= StepSize(k)
              /\ StepSize(k) <= Div(cfg.lr, SCALE - cfg.beta1)

C10_Witness ==
    /\ ValidConfig(cfg) /\ cfg.lr > 0
    /\ \E p \in DOMAIN states : states[p].step >= 2

====
